---- MODULE Spec2Model ----
(***************************************************************************)
(* Kanban board: permission evaluator (lib/auth-helpers.ts), task API      *)
(* handlers (app/api/tasks/[id]/route.ts, POST/GET as listed in README.md) *)
(* and the client board (KanbanBoard: drag handlers, optimistic move,      *)
(* refetch on failure).                                                    *)
(***************************************************************************)
EXTENDS Integers, Sequences, FiniteSets, TLC

VARIABLES
    ctx, perms,          \* evaluator: the context drawn and the decisions returned
    authUser, hookPerms, \* usePermissions: the user of useAuth and the hook's result
    tasks, tagTable,     \* database: task rows (with their tag links), tag rows
    reqs,                \* HTTP requests in flight or answered and not yet received
    mounted, boardTasks, loading, error, activeTask, originalTaskStatus,
                         \* KanbanBoard: its useState cells (boardTasks is `tasks')
    drag,                \* dnd-kit: the gesture in progress
    moveOf,              \* history: the drop each outstanding exchange belongs to
    captured,            \* KanbanBoard: the list each outstanding handleTaskUpdate closed over
    users,               \* database: user rows, by id
    localStorage         \* the browser's localStorage, by key

permVars == <<ctx, perms, authUser, hookPerms>>
dbVars == <<tasks, tagTable>>
netVars == <<reqs>>
accountVars == <<users, localStorage>>
boardVars == <<mounted, boardTasks, loading, error, activeTask, originalTaskStatus,
               drag, moveOf>>
vars == <<ctx, perms, authUser, hookPerms, tasks, tagTable, reqs, mounted, boardTasks, loading, error,
          activeTask, originalTaskStatus, drag, moveOf, captured, users, localStorage>>

\* bound of the model: the number of tasks a run may create
MaxCreated == 1
\* requests of the board that may be outstanding at once
MaxPending == 1
MaxOverlap == 2

(***************************************************************************)
(* Values.  JavaScript null and undefined are two distinct values; ids are *)
(* strings.                                                                *)
(***************************************************************************)
Null == "null"
Undefined == "undefined"

Roles == {"ADMIN", "SUPERVISOR", "EMPLOYEE", "VIEWER"}
\* values a role field can hold at run time although the type excludes them
OtherRoles == {"INTERN", Undefined}
AssigneeIds == {"a1", "a2"}

(***************************************************************************)
(* Permission evaluator                                                    *)
(***************************************************************************)
PermissionContext ==
    [userRole : Roles \cup OtherRoles,
     userId : {"u1"},
     taskOwnerId : {Null, "u1", "u2"},
     taskAssigneeId : AssigneeIds \cup {Null, Undefined},
     userAssigneeId : AssigneeIds \cup {Null, Undefined}]

canCreateTask(userRole) == userRole = "ADMIN" \/ userRole = "SUPERVISOR"

canEditTaskOwn(context) ==
    \/ context.userRole = "ADMIN"
    \/ context.userRole = "SUPERVISOR"
    \/ context.userRole = "EMPLOYEE" /\ context.taskAssigneeId = context.userAssigneeId

canEditTask(context) ==
    context.userRole = "ADMIN" \/ context.userRole = "SUPERVISOR"

\* a variant that refuses only the roles it names
canDeleteTaskUnlessNamed(context) ==
    ~(context.userRole = "EMPLOYEE" \/ context.userRole = "VIEWER")

canDeleteTask(context) ==
    context.userRole = "ADMIN" \/ context.userRole = "SUPERVISOR"

canAssignTask(userRole) == userRole = "ADMIN" \/ userRole = "SUPERVISOR"

\* userAssigneeId !== null && taskAssigneeId === userAssigneeId : strict
\* comparisons, so undefined passes the first test and equals undefined.
canMoveTask(context) ==
    IF context.userRole = "ADMIN" \/ context.userRole = "SUPERVISOR"
    THEN TRUE
    ELSE IF context.userRole = "EMPLOYEE"
         THEN /\ context.userAssigneeId # Null
              /\ context.taskAssigneeId = context.userAssigneeId
         ELSE FALSE

canViewTasks(userRole) == TRUE

canChangePriority(context) ==
    context.userRole = "ADMIN" \/ context.userRole = "SUPERVISOR"

canChangeDueDate(context) ==
    context.userRole = "ADMIN" \/ context.userRole = "SUPERVISOR"

canManageTags(context) ==
    context.userRole = "ADMIN" \/ context.userRole = "SUPERVISOR"

getUserPermissions(context) ==
    [evaluated |-> TRUE,
     canCreate |-> canCreateTask(context.userRole),
     canEdit |-> canEditTask(context),
     canDelete |-> canDeleteTask(context),
     canAssign |-> canAssignTask(context.userRole),
     canMove |-> canMoveTask(context),
     canView |-> canViewTasks(context.userRole),
     canChangePriority |-> canChangePriority(context),
     canChangeDueDate |-> canChangeDueDate(context),
     canManageTags |-> canManageTags(context)]

NoPerms ==
    [evaluated |-> FALSE, canCreate |-> FALSE, canEdit |-> FALSE,
     canDelete |-> FALSE, canAssign |-> FALSE, canMove |-> FALSE,
     canView |-> FALSE, canChangePriority |-> FALSE,
     canChangeDueDate |-> FALSE, canManageTags |-> FALSE]


(***************************************************************************)
(* Database contents                                                       *)
(***************************************************************************)
\* ids the store hands out to created tasks, in order
NewIds == <<"n1", "n2", "n3">>
CreatedIds == {NewIds[k] : k \in 1..MaxCreated}
TaskIds == {"t1", "t2"} \cup CreatedIds
TagNames == {"x", "y", "X"}

\* the user table: role and optional link to an assignee profile
UserTable ==
    [u \in {"uA", "uS", "uE", "uF", "uV"} |->
        CASE u = "uA" -> [id |-> u, role |-> "ADMIN", assigneeId |-> Null]
          [] u = "uS" -> [id |-> u, role |-> "SUPERVISOR", assigneeId |-> Null]
          [] u = "uE" -> [id |-> u, role |-> "EMPLOYEE", assigneeId |-> "a1"]
          [] u = "uF" -> [id |-> u, role |-> "EMPLOYEE", assigneeId |-> Null]
          [] u = "uV" -> [id |-> u, role |-> "VIEWER", assigneeId |-> "a2"]]

NoUser == [id |-> "none", role |-> "none", assigneeId |-> Null]

\* the assignee table, in the order findFirst scans it
AssigneeRows == <<[id |-> "a1", name |-> "Alice"], [id |-> "a2", name |-> "Bob"]>>

AssigneeName == [a \in AssigneeIds |->
    AssigneeRows[CHOOSE k \in DOMAIN AssigneeRows : AssigneeRows[k].id = a].name]

\* a variant that matches names whatever their case
FindAssigneeIdAnyCase(name) ==
    LET fold(n) == IF n = "bob" THEN "Bob" ELSE n
        hits == {k \in DOMAIN AssigneeRows : AssigneeRows[k].name = fold(name)}
    IN  IF hits = {} THEN Null
        ELSE AssigneeRows[CHOOSE k \in hits : \A j \in hits : k <= j].id

\* prisma.assignee.findFirst({where: {name}}), then assignee?.id || null
FindAssigneeId(name) ==
    LET hits == {k \in DOMAIN AssigneeRows : AssigneeRows[k].name = name}
    IN  IF hits = {} THEN Null
        ELSE AssigneeRows[CHOOSE k \in hits : \A j \in hits : k <= j].id

NoRow ==
    [exists |-> FALSE, title |-> "", description |-> Null, priority |-> "MEDIUM",
     status |-> "TODO", dueDate |-> Null, assigneeId |-> Null, ownerId |-> Null,
     tags |-> {}]

Row(title, status, assigneeId, tags) ==
    [NoRow EXCEPT !.exists = TRUE, !.title = title, !.status = status,
                  !.assigneeId = assigneeId, !.ownerId = "uA", !.tags = tags]

(***************************************************************************)
(* Type conversion utilities of the route                                  *)
(***************************************************************************)
statusFromEnum(status) ==
    CASE status = "TODO" -> "todo"
      [] status = "IN_PROGRESS" -> "in-progress"
      [] status = "DONE" -> "done"
      [] OTHER -> "todo"

\* a variant that passes an unknown value through
statusToEnumRaw(status) ==
    CASE status = "todo" -> "TODO"
      [] status = "in-progress" -> "IN_PROGRESS"
      [] status = "done" -> "DONE"
      [] OTHER -> status

statusToEnum(status) ==
    CASE status = "todo" -> "TODO"
      [] status = "in-progress" -> "IN_PROGRESS"
      [] status = "done" -> "DONE"
      [] OTHER -> "TODO"

priorityFromEnum(priority) ==
    CASE priority = "LOW" -> "low"
      [] priority = "MEDIUM" -> "medium"
      [] priority = "HIGH" -> "high"

priorityToEnum(priority) ==
    CASE priority = "low" -> "LOW"
      [] priority = "medium" -> "MEDIUM"
      [] priority = "high" -> "HIGH"

\* a variant that reads the day in a time zone west of Greenwich
IsoDayLocal(d) == IF d = "2025-01-02T00:00:00.000Z" THEN "2025-01-01" ELSE Undefined

\* new Date(s) for a calendar date string, and toISOString().split('T')[0]
NewDate(s) == IF s = "2025-01-02" THEN "2025-01-02T00:00:00.000Z" ELSE Null
IsoDay(d) == IF d = "2025-01-02T00:00:00.000Z" THEN "2025-01-02" ELSE Undefined

\* x || null
OrNull(x) == IF x \in {Undefined, Null, ""} THEN Null ELSE x
\* x || undefined
OrUndefined(x) == IF x \in {Undefined, Null, ""} THEN Undefined ELSE x

NoTask ==
    [exists |-> FALSE, title |-> "", description |-> Undefined, priority |-> "medium",
     status |-> "todo", assignee |-> Undefined, assigneeId |-> Null, ownerId |-> Null,
     dueDate |-> Undefined, tags |-> {}]

transformTaskFromDb(dbTask) ==
    [exists |-> TRUE,
     title |-> dbTask.title,
     description |-> OrUndefined(dbTask.description),
     priority |-> priorityFromEnum(dbTask.priority),
     status |-> statusFromEnum(dbTask.status),
     assignee |-> IF dbTask.assigneeId \in AssigneeIds
                  THEN OrUndefined(AssigneeName[dbTask.assigneeId]) ELSE Undefined,
     assigneeId |-> OrNull(dbTask.assigneeId),
     ownerId |-> OrNull(dbTask.ownerId),
     dueDate |-> IF dbTask.dueDate # Null THEN IsoDay(dbTask.dueDate) ELSE Undefined,
     tags |-> dbTask.tags]

\* a response body: one task (PUT, PATCH, POST) or the list of tasks (GET),
\* each with its id
NoResult == {}
WithId(t, task) == [id |-> t, task |-> task]
OneResult(t, dbTask) == {WithId(t, transformTaskFromDb(dbTask))}

(***************************************************************************)
(* Requests                                                                *)
(***************************************************************************)
NoHeader == [scheme |-> "none", parts |-> <<>>]
Bearer(parts) == [scheme |-> "Bearer", parts |-> parts]
TokenOf(u) == <<"temp", "token", u, "1700000000">>

Headers ==
    {NoHeader,
     [scheme |-> "Basic", parts |-> TokenOf("uA")],
     Bearer(<<"temp", "token">>),
     Bearer(<<"jwt", "token", "uA", "1700000000">>),
     Bearer(TokenOf("uX"))}
    \cup {Bearer(TokenOf(u)) : u \in DOMAIN UserTable}

NoTags == [present |-> FALSE, list |-> <<>>]
Tags(list) == [present |-> TRUE, list |-> list]

NoBody ==
    [status |-> Undefined, title |-> Undefined, description |-> Undefined,
     priority |-> Undefined, dueDate |-> Undefined, assignee |-> Undefined,
     tags |-> NoTags, json |-> TRUE]
\* a body request.json() rejects
BadJson == [NoBody EXCEPT !.json = FALSE]

\* the fields other than status a request body may carry
EditParts ==
    {NoBody,
     [NoBody EXCEPT !.title = "T2"],
     [NoBody EXCEPT !.assignee = "Bob"],
     [NoBody EXCEPT !.tags = Tags(<<"y">>)],
     [NoBody EXCEPT !.tags = Tags(<<"X", "x", "X">>)],
     [NoBody EXCEPT !.title = "T2", !.description = "D2", !.priority = "high",
                    !.dueDate = "2025-01-02", !.assignee = "", !.tags = Tags(<<>>)]}

BodyStatuses == {Undefined, "todo", "in-progress", "done", "bogus"}

PutBodies ==
    {[e EXCEPT !.status = s] : e \in EditParts, s \in BodyStatuses \ {"in-progress"}}
    \cup {BadJson}
PatchBodies ==
    {[NoBody EXCEPT !.status = s] : s \in BodyStatuses}
    \cup {[NoBody EXCEPT !.status = "done", !.title = "T2"], BadJson}
PostBodies ==
    {[NoBody EXCEPT !.title = "T3", !.status = "todo", !.priority = "low"],
     [NoBody EXCEPT !.title = "T3", !.priority = "low"],
     [NoBody EXCEPT !.title = "T3", !.status = "bogus", !.priority = "low"],
     [NoBody EXCEPT !.title = "T3", !.status = "done", !.priority = "high",
                    !.assignee = "Alice", !.tags = Tags(<<"x", "y">>)],
     BadJson}

NoExisting == [found |-> FALSE, status |-> "TODO", ownerId |-> Null, assigneeId |-> Null]

Request(src, method, header, taskId, body) ==
    [src |-> src, method |-> method, header |-> header, taskId |-> taskId,
     body |-> body, pc |-> "sent", user |-> NoUser, existing |-> NoExisting,
     code |-> 0, error |-> "", i |-> 0, result |-> NoResult]

Respond(r, code, message, result) ==
    [r EXCEPT !.pc = "done", !.code = code, !.error = message, !.result = result]

Step(r, r2) == reqs' = (reqs \ {r}) \cup {r2}

InFlight == {r \in reqs : r.pc # "done"}

(***************************************************************************)
(* getAuthenticatedUser                                                    *)
(***************************************************************************)
\* a variant that takes the user id of any token of three parts
getAuthenticatedUserLoose(header) ==
    IF header.scheme # "Bearer"
    THEN NoUser
    ELSE IF Len(header.parts) < 3
         THEN NoUser
         ELSE IF header.parts[3] \in DOMAIN users
              THEN users[header.parts[3]]
              ELSE NoUser

\* a variant that keeps the user rows it read when the tokens were issued
getAuthenticatedUserCached(header) ==
    IF header.scheme # "Bearer"
    THEN NoUser
    ELSE IF \/ Len(header.parts) < 3
            \/ header.parts[1] # "temp"
            \/ header.parts[2] # "token"
         THEN NoUser
         ELSE IF header.parts[3] \in DOMAIN UserTable
              THEN UserTable[header.parts[3]]
              ELSE NoUser

getAuthenticatedUser(header) ==
    IF header.scheme # "Bearer"
    THEN NoUser
    ELSE IF \/ Len(header.parts) < 3
            \/ header.parts[1] # "temp"
            \/ header.parts[2] # "token"
         THEN NoUser
         ELSE IF header.parts[3] \in DOMAIN users
              THEN users[header.parts[3]]
              ELSE NoUser

ContextOf(user, existing) ==
    [userRole |-> user.role,
     userId |-> user.id,
     userAssigneeId |-> OrNull(user.assigneeId),
     taskAssigneeId |-> existing.assigneeId,
     taskOwnerId |-> existing.ownerId]

\* prisma.task.findUnique({where: {id}, select: {...}})
FindExisting(t) ==
    IF t \in TaskIds /\ tasks[t].exists
    THEN [found |-> TRUE, status |-> tasks[t].status, ownerId |-> tasks[t].ownerId,
          assigneeId |-> tasks[t].assigneeId]
    ELSE NoExisting

RowExists(t) == t \in TaskIds /\ tasks[t].exists

(***************************************************************************)
(* Handlers of /api/tasks/[id] and /api/tasks, one action per stretch of   *)
(* code between two database calls.                                        *)
(***************************************************************************)
\* getAuthenticatedUser at the head of PUT, PATCH, DELETE and POST
Authenticate(r) ==
    /\ r.pc = "sent"
    /\ r.method # "GET"
    /\ LET user == getAuthenticatedUser(r.header)
       IN  IF user = NoUser
           THEN Step(r, Respond(r, 401, "Authentication required", NoResult))
           ELSE Step(r, [r EXCEPT !.pc = "authed", !.user = user])
    /\ UNCHANGED <<captured, accountVars, permVars, boardVars, dbVars>>

isStatusChange(body, existing) ==
    body.status # Undefined /\ statusToEnum(body.status) # existing.status

PutAuthorizedEditOnly(r, existing) ==
    canEditTask(ContextOf(r.user, existing))

\* the permission the PUT handler requires of the actor
PutAuthorized(r, existing) ==
    IF isStatusChange(r.body, existing)
    THEN canMoveTask(ContextOf(r.user, existing))
    ELSE canEditTask(ContextOf(r.user, existing))

PutDeniedMessage(r, existing) ==
    IF isStatusChange(r.body, existing)
    THEN "You can only move tasks assigned to you"
    ELSE "You do not have permission to edit this task"

\* PUT: findUnique, classification of the update, permission check
PutLookup(r) ==
    /\ r.pc = "authed"
    /\ r.method = "PUT"
    /\ LET existing == FindExisting(r.taskId)
       IN  IF ~existing.found
           THEN Step(r, Respond(r, 404, "Task not found", NoResult))
           ELSE IF ~r.body.json
           THEN Step(r, Respond([r EXCEPT !.existing = existing], 500,
                                "Failed to update task", NoResult))
           ELSE IF ~PutAuthorized(r, existing)
                THEN Step(r, Respond([r EXCEPT !.existing = existing], 403,
                                     PutDeniedMessage(r, existing), NoResult))
                ELSE Step(r, [r EXCEPT !.pc = "allowed", !.existing = existing])
    /\ UNCHANGED <<captured, accountVars, permVars, boardVars, dbVars>>

\* updateData of the PUT handler applied to a row
PutUpdateData(body, row) ==
    LET assigneeId ==
            IF body.assignee # Undefined /\ body.assignee # ""
            THEN FindAssigneeId(body.assignee) ELSE Null
    IN  [row EXCEPT
            !.title = IF body.title # Undefined THEN body.title ELSE @,
            !.description = IF body.description # Undefined
                            THEN OrNull(body.description) ELSE @,
            !.priority = IF body.priority # Undefined
                         THEN priorityToEnum(body.priority) ELSE @,
            !.status = IF body.status # Undefined THEN statusToEnum(body.status) ELSE @,
            !.dueDate = IF body.dueDate # Undefined
                        THEN (IF body.dueDate # "" THEN NewDate(body.dueDate) ELSE Null)
                        ELSE @,
            !.assigneeId = IF body.assignee # Undefined THEN assigneeId ELSE @]

\* PUT: assignee lookup and prisma.task.update
PutUpdate(r) ==
    /\ r.pc = "allowed"
    /\ r.method = "PUT"
    /\ IF ~RowExists(r.taskId)
       THEN /\ Step(r, Respond(r, 500, "Failed to update task", NoResult))
            /\ UNCHANGED tasks
       ELSE LET row == PutUpdateData(r.body, tasks[r.taskId])
            IN  /\ tasks' = [tasks EXCEPT ![r.taskId] = row]
                /\ IF r.body.tags.present
                   THEN Step(r, [r EXCEPT !.pc = "deltags"])
                   ELSE Step(r, Respond(r, 200, "", OneResult(r.taskId, row)))
    /\ UNCHANGED <<captured, accountVars, permVars, boardVars, tagTable>>

\* a variant that keeps the existing links
PutKeepTags(r) ==
    /\ r.pc = "deltags"
    /\ UNCHANGED tasks
    /\ Step(r, [r EXCEPT !.pc = IF Len(r.body.tags.list) > 0 THEN "addtag" ELSE "refetch",
                         !.i = 1])
    /\ UNCHANGED <<captured, accountVars, permVars, boardVars, tagTable>>

\* PUT: prisma.taskTag.deleteMany({where: {taskId}})
PutDeleteTags(r) ==
    /\ r.pc = "deltags"
    /\ tasks' = [tasks EXCEPT ![r.taskId].tags = {}]
    /\ Step(r, [r EXCEPT !.pc = IF Len(r.body.tags.list) > 0 THEN "addtag" ELSE "refetch",
                         !.i = 1])
    /\ UNCHANGED <<captured, accountVars, permVars, boardVars, tagTable>>

\* PUT and POST: one turn of the tag loop (find or create the tag, link it)
AddTag(r) ==
    /\ r.pc = "addtag"
    /\ LET name == r.body.tags.list[r.i]
           fail == Respond(r, 500, IF r.method = "PUT" THEN "Failed to update task"
                                   ELSE "Failed to create task", NoResult)
           next == [r EXCEPT !.pc = IF r.i < Len(r.body.tags.list) THEN "addtag"
                                    ELSE "refetch",
                             !.i = r.i + 1]
       IN  /\ tagTable' = tagTable \cup {name}
           /\ IF ~RowExists(r.taskId)
              THEN Step(r, fail) /\ UNCHANGED tasks
              ELSE IF name \in tasks[r.taskId].tags
                   THEN \* the link exists already: the store rejects it or keeps one
                        /\ UNCHANGED tasks
                        /\ (Step(r, fail) \/ Step(r, next))
                   ELSE /\ tasks' = [tasks EXCEPT ![r.taskId].tags = @ \cup {name}]
                        /\ Step(r, next)
    /\ UNCHANGED <<captured, accountVars, permVars, boardVars>>

\* PUT and POST: the final findUnique and the response
Refetch(r) ==
    /\ r.pc = "refetch"
    /\ IF ~RowExists(r.taskId)
       THEN Step(r, Respond(r, 500, IF r.method = "PUT" THEN "Failed to update task"
                                    ELSE "Failed to create task", NoResult))
       ELSE Step(r, Respond(r, 200, "", OneResult(r.taskId, tasks[r.taskId])))
    /\ UNCHANGED <<captured, accountVars, permVars, boardVars, dbVars>>

PatchLookupNoCheck(r) ==
    /\ r.pc = "authed"
    /\ r.method = "PATCH"
    /\ LET existing == FindExisting(r.taskId)
       IN  IF ~existing.found
           THEN Step(r, Respond(r, 404, "Task not found", NoResult))
           ELSE Step(r, [r EXCEPT !.pc = "allowed", !.existing = existing])
    /\ UNCHANGED <<captured, accountVars, permVars, boardVars, dbVars>>

\* PATCH: findUnique and the move permission check
PatchLookup(r) ==
    /\ r.pc = "authed"
    /\ r.method = "PATCH"
    /\ LET existing == FindExisting(r.taskId)
       IN  IF ~existing.found
           THEN Step(r, Respond(r, 404, "Task not found", NoResult))
           ELSE IF ~canMoveTask(ContextOf(r.user, existing))
                THEN Step(r, Respond([r EXCEPT !.existing = existing], 403,
                                     "You can only move tasks assigned to you", NoResult))
                ELSE Step(r, [r EXCEPT !.pc = "allowed", !.existing = existing])
    /\ UNCHANGED <<captured, accountVars, permVars, boardVars, dbVars>>

\* a variant that refuses a move to the status the task already has
PatchUpdateStrict(r) ==
    /\ r.pc = "allowed"
    /\ r.method = "PATCH"
    /\ IF ~r.body.json \/ ~RowExists(r.taskId)
       THEN /\ Step(r, Respond(r, 500, "Failed to update task status", NoResult))
            /\ UNCHANGED tasks
       ELSE IF statusToEnum(r.body.status) = tasks[r.taskId].status
            THEN /\ Step(r, Respond(r, 400, "Task is already in this status", NoResult))
                 /\ UNCHANGED tasks
            ELSE LET row == [tasks[r.taskId] EXCEPT !.status = statusToEnum(r.body.status)]
                 IN  /\ tasks' = [tasks EXCEPT ![r.taskId] = row]
                     /\ Step(r, Respond(r, 200, "", OneResult(r.taskId, row)))
    /\ UNCHANGED <<captured, accountVars, permVars, boardVars, tagTable>>

\* PATCH: prisma.task.update({data: {status}})
PatchUpdate(r) ==
    /\ r.pc = "allowed"
    /\ r.method = "PATCH"
    /\ IF ~r.body.json \/ ~RowExists(r.taskId)
       THEN /\ Step(r, Respond(r, 500, "Failed to update task status", NoResult))
            /\ UNCHANGED tasks
       ELSE LET row == [tasks[r.taskId] EXCEPT !.status = statusToEnum(r.body.status)]
            IN  /\ tasks' = [tasks EXCEPT ![r.taskId] = row]
                /\ Step(r, Respond(r, 200, "", OneResult(r.taskId, row)))
    /\ UNCHANGED <<captured, accountVars, permVars, boardVars, tagTable>>

\* a variant without the permission check
DeleteLookupNoCheck(r) ==
    /\ r.pc = "authed"
    /\ r.method = "DELETE"
    /\ LET existing == FindExisting(r.taskId)
       IN  IF ~existing.found
           THEN Step(r, Respond(r, 404, "Task not found", NoResult))
           ELSE Step(r, [r EXCEPT !.pc = "allowed", !.existing = existing])
    /\ UNCHANGED <<captured, accountVars, permVars, boardVars, dbVars>>

\* DELETE: findUnique and the delete permission check
DeleteLookup(r) ==
    /\ r.pc = "authed"
    /\ r.method = "DELETE"
    /\ LET existing == FindExisting(r.taskId)
       IN  IF ~existing.found
           THEN Step(r, Respond(r, 404, "Task not found", NoResult))
           ELSE IF ~canDeleteTask(ContextOf(r.user, existing))
                THEN Step(r, Respond([r EXCEPT !.existing = existing], 403,
                                     "You do not have permission to delete this task",
                                     NoResult))
                ELSE Step(r, [r EXCEPT !.pc = "allowed", !.existing = existing])
    /\ UNCHANGED <<captured, accountVars, permVars, boardVars, dbVars>>

\* DELETE: prisma.task.delete; for a task that has tag links the store
\* either removes them with the task or rejects the delete
DeleteTask(r) ==
    /\ r.pc = "allowed"
    /\ r.method = "DELETE"
    /\ IF ~RowExists(r.taskId)
       THEN /\ Step(r, Respond(r, 500, "Failed to delete task", NoResult))
            /\ UNCHANGED tasks
       ELSE \/ /\ tasks' = [tasks EXCEPT ![r.taskId] = NoRow]
               /\ Step(r, Respond(r, 200, "", NoResult))
            \/ /\ tasks[r.taskId].tags # {}
               /\ Step(r, Respond(r, 500, "Failed to delete task", NoResult))
               /\ UNCHANGED tasks
    /\ UNCHANGED <<captured, accountVars, permVars, boardVars, tagTable>>

\* POST: the create permission check
PostCheck(r) ==
    /\ r.pc = "authed"
    /\ r.method = "POST"
    /\ IF ~canCreateTask(r.user.role)
       THEN Step(r, Respond(r, 403, "You do not have permission to create tasks",
                            NoResult))
       ELSE Step(r, [r EXCEPT !.pc = "allowed"])
    /\ UNCHANGED <<captured, accountVars, permVars, boardVars, dbVars>>

\* the id the store gives the next task created
FreshId ==
    NewIds[CHOOSE k \in 1..MaxCreated :
              /\ ~tasks[NewIds[k]].exists
              /\ \A j \in 1..MaxCreated : ~tasks[NewIds[j]].exists => k <= j]

\* POST: assignee lookup and prisma.task.create
PostCreate(r) ==
    /\ r.pc = "allowed"
    /\ r.method = "POST"
    /\ IF \/ ~r.body.json
          \/ r.body.priority = Undefined    \* undefined.toUpperCase() throws
          \/ r.body.title = Undefined       \* the store refuses a row without a title
       THEN /\ Step(r, Respond(r, 500, "Failed to create task", NoResult))
            /\ UNCHANGED tasks
       ELSE \E t \in CreatedIds :
              /\ t = FreshId
              /\ LET b == r.body
                     assigneeId == IF b.assignee \notin {Undefined, Null, ""}
                                   THEN FindAssigneeId(b.assignee) ELSE Null
                     row == [exists |-> TRUE,
                             title |-> b.title,
                             description |-> OrNull(b.description),
                             priority |-> priorityToEnum(b.priority),
                             status |-> statusToEnum(b.status),
                             dueDate |-> IF b.dueDate \notin {Undefined, Null, ""}
                                         THEN NewDate(b.dueDate) ELSE Null,
                             assigneeId |-> OrNull(assigneeId),
                             ownerId |-> Null,
                             tags |-> {}]
                 IN  /\ tasks' = [tasks EXCEPT ![t] = row]
                     /\ IF b.tags.present /\ Len(b.tags.list) > 0
                        THEN Step(r, [r EXCEPT !.pc = "addtag", !.i = 1, !.taskId = t])
                        ELSE Step(r, Respond([r EXCEPT !.taskId = t], 200, "",
                                             OneResult(t, row)))
    /\ UNCHANGED <<captured, accountVars, permVars, boardVars, tagTable>>

\* GET /api/tasks: findMany and the transformed list
GetTasks(r) ==
    /\ r.pc = "sent"
    /\ r.method = "GET"
    /\ Step(r, Respond(r, 200, "",
            {WithId(t, transformTaskFromDb(tasks[t])) : t \in {u \in TaskIds : tasks[u].exists}}))
    /\ UNCHANGED <<captured, accountVars, permVars, boardVars, dbVars>>

ServerStep ==
    \E r \in reqs :
        \/ Authenticate(r)
        \/ PutLookup(r)
        \/ PutUpdate(r)
        \/ PutDeleteTags(r)
        \/ AddTag(r)
        \/ Refetch(r)
        \/ PatchLookup(r)
        \/ PatchUpdate(r)
        \/ DeleteLookup(r)
        \/ DeleteTask(r)
        \/ PostCheck(r)
        \/ PostCreate(r)
        \/ GetTasks(r)

(***************************************************************************)
(* Handlers of /api/users/[id].  A request to them has method "PUT users"  *)
(* or "DELETE users" and carries the user id of the path in taskId; its    *)
(* head, getAuthenticatedUser, is the step Authenticate.                   *)
(***************************************************************************)
UserMethods == {"PUT users", "DELETE users"}

NoUserBody == [json |-> TRUE, name |-> Undefined, email |-> Undefined, role |-> Undefined]

\* the admin check, the self-deletion check, request.json() and
\* prisma.user.findUnique({where: {id}})
UserLookup(r) ==
    /\ r.pc = "authed"
    /\ r.method \in UserMethods
    /\ IF r.user.role # "ADMIN"
       THEN Step(r, Respond(r, 403, "Admin access required", NoResult))
       ELSE IF r.method = "DELETE users" /\ r.taskId = r.user.id
            THEN Step(r, Respond(r, 400, "Cannot delete your own account", NoResult))
            ELSE IF r.method = "PUT users" /\ ~r.body.json
                 THEN Step(r, Respond(r, 500, "Failed to update user", NoResult))
                 ELSE IF r.taskId \notin DOMAIN users
                      THEN Step(r, Respond(r, 404, "User not found", NoResult))
                      ELSE Step(r, [r EXCEPT !.pc = "allowed",
                                             !.existing = [NoExisting EXCEPT
                                                 !.found = TRUE,
                                                 !.assigneeId = users[r.taskId].assigneeId]])
    /\ UNCHANGED <<captured, localStorage, permVars, boardVars, dbVars, users>>

\* prisma.user.update({where: {id}, data: {...(role && {role})}}); the body
\* carries no email, so the check of email conflicts is skipped
UserUpdate(r) ==
    /\ r.pc = "allowed"
    /\ r.method = "PUT users"
    /\ IF r.taskId \notin DOMAIN users
       THEN /\ Step(r, Respond(r, 500, "Failed to update user", NoResult))
            /\ UNCHANGED users
       ELSE /\ users' = [users EXCEPT ![r.taskId].role =
                            IF r.body.role \in {Undefined, Null, ""} THEN @ ELSE r.body.role]
            /\ Step(r, Respond(r, 200, "", NoResult))
    /\ UNCHANGED <<captured, localStorage, permVars, boardVars, dbVars>>

\* prisma.user.delete({where: {id}}) of a user without an assignee profile;
\* the profile table is fixed, so the deletion of a user who has a profile,
\* which may delete the profile too, is not taken
UserDelete(r) ==
    /\ r.pc = "allowed"
    /\ r.method = "DELETE users"
    /\ r.existing.assigneeId = Null
    /\ IF r.taskId \notin DOMAIN users
       THEN /\ Step(r, Respond(r, 500, "Failed to delete user", NoResult))
            /\ UNCHANGED users
       ELSE /\ users' = [u \in DOMAIN users \ {r.taskId} |-> users[u]]
            /\ Step(r, Respond(r, 200, "", NoResult))
    /\ UNCHANGED <<captured, localStorage, permVars, boardVars, dbVars>>

UserServerStep ==
    \E r \in reqs :
        \/ UserLookup(r)
        \/ UserUpdate(r)
        \/ UserDelete(r)

(***************************************************************************)
(* API clients: any caller able to reach the endpoints                     *)
(***************************************************************************)
TargetIds == {"t1", "t9"}
Methods == {"PUT", "PATCH", "DELETE", "POST"}

ValidHeaders == {Bearer(TokenOf(u)) : u \in DOMAIN UserTable}
InvalidHeaders == Headers \ ValidHeaders

Idle(c) == \A r \in reqs : r.src # c

Issue(r) ==
    /\ Idle(r.src)
    /\ reqs' = reqs \cup {r}

\* the caller, "c1", sends one request at a time, any of the menus; a request whose
\* credential is rejected or whose task id is unknown carries the plain body
\* of its method
ApiPut ==
    /\ \/ \E h \in ValidHeaders, b \in PutBodies :
             Issue(Request("c1", "PUT", h, "t1", b))
       \/ \E h \in Headers, t \in TargetIds :
             Issue(Request("c1", "PUT", h, t, [NoBody EXCEPT !.title = "T2"]))
    /\ UNCHANGED <<captured, accountVars, permVars, boardVars, dbVars>>

ApiPatch ==
    /\ \/ \E h \in ValidHeaders, b \in PatchBodies :
             Issue(Request("c1", "PATCH", h, "t1", b))
       \/ \E h \in Headers, t \in TargetIds :
             Issue(Request("c1", "PATCH", h, t, [NoBody EXCEPT !.status = "done"]))
    /\ UNCHANGED <<captured, accountVars, permVars, boardVars, dbVars>>

ApiDelete ==
    /\ \E h \in Headers, t \in TargetIds :
          Issue(Request("c1", "DELETE", h, t, NoBody))
    /\ UNCHANGED <<captured, accountVars, permVars, boardVars, dbVars>>

ApiPost ==
    /\ \E t \in CreatedIds : ~tasks[t].exists
    /\ \/ \E h \in ValidHeaders, b \in PostBodies :
             Issue(Request("c1", "POST", h, "", b))
       \/ \E h \in InvalidHeaders :
             Issue(Request("c1", "POST", h, "", CHOOSE b \in PostBodies : ~b.tags.present))
    /\ UNCHANGED <<captured, accountVars, permVars, boardVars, dbVars>>

ApiGet ==
    /\ Issue(Request("c1", "GET", NoHeader, "", NoBody))
    /\ UNCHANGED <<captured, accountVars, permVars, boardVars, dbVars>>

\* the caller receives the response
ApiReceive ==
    /\ \E r \in reqs :
          /\ r.src = "c1"
          /\ r.pc = "done"
          /\ reqs' = reqs \ {r}
    /\ UNCHANGED <<captured, accountVars, permVars, boardVars, dbVars>>

(***************************************************************************)
(* KanbanBoard: the component's state and its handlers                     *)
(***************************************************************************)
columns == {"todo", "in-progress", "done"}

SlotNames == <<"b1", "b2", "b3", "b4">>
SlotsUpTo(n) == {SlotNames[k] : k \in 1..n}
\* the exchanges the page can have outstanding
Slots == DOMAIN moveOf

\* the gesture dnd-kit is tracking: the dragged card and the droppable under it
NoDrag == [active |-> Null, over |-> Null]
\* the drop an outstanding exchange belongs to, kept for a drop made while
\* no other exchange was outstanding: the card, the column it was dragged
\* from, and the answer its Move request got
NoMove == [task |-> Null, from |-> Null, code |-> 0]

\* useState defaults, for a page that can have n exchanges outstanding
Unmounted(n) ==
    /\ mounted = FALSE
    /\ boardTasks = {}
    /\ loading = TRUE
    /\ error = Null
    /\ activeTask = Null
    /\ originalTaskStatus = [t \in TaskIds |-> Undefined]
    /\ drag = NoDrag
    /\ moveOf = [b \in SlotsUpTo(n) |-> NoMove]
    /\ captured = [b \in SlotsUpTo(n) |-> {}]

BoardUnmounted == Unmounted(MaxPending)

Ids(list) == {e.id : e \in list}
\* tasks.find(task => task.id === t)?.status
StatusOn(list, t) ==
    IF t \in Ids(list) THEN (CHOOSE e \in list : e.id = t).task.status ELSE Undefined
\* tasks.map(task => task.id === t ? {...task, status: s} : task)
SetStatus(list, t, s) ==
    {IF e.id = t THEN [e EXCEPT !.task.status = s] ELSE e : e \in list}

\* response.ok
Ok(code) == code \in 200..299

\* the board is rendered: neither the spinner nor the error view replaces it
Interactive == mounted /\ ~loading /\ error = Null

FreeSlot == SlotNames[CHOOSE k \in 1..Cardinality(Slots) :
                          /\ Idle(SlotNames[k])
                          /\ \A j \in 1..(k - 1) : ~Idle(SlotNames[j])]
HasFreeSlot == \E b \in Slots : Idle(b)

\* apiClient sends Content-Type only
BoardRequest(b, method, taskId, body) == Request(b, method, NoHeader, taskId, body)

\* loadTasks up to its await; the spinner replaces the board, which ends a
\* gesture in progress without an event
loadTasks(b, others) ==
    /\ loading' = TRUE
    /\ error' = Null
    /\ drag' = NoDrag
    /\ reqs' = others \cup {BoardRequest(b, "GET", "", NoBody)}

\* useEffect(() => { setMounted(true); loadTasks() }, [])
Mount ==
    /\ ~mounted
    /\ mounted' = TRUE
    /\ loadTasks(FreeSlot, reqs)
    /\ UNCHANGED <<boardTasks, activeTask, originalTaskStatus, moveOf>>
    /\ UNCHANGED <<captured, accountVars, permVars, dbVars>>

\* handleTaskStatusChange up to its await
handleTaskStatusChange(b, taskId, newStatus) ==
    /\ boardTasks' = SetStatus(boardTasks, taskId, newStatus)
    /\ reqs' = reqs \cup {BoardRequest(b, "PATCH", taskId,
                                       [NoBody EXCEPT !.status = newStatus])}

handleDragStart(t) ==
    /\ Interactive
    /\ drag.active = Null
    /\ t \in Ids(boardTasks)
    /\ drag' = [active |-> t, over |-> Null]
    /\ activeTask' = t
    /\ originalTaskStatus' = [originalTaskStatus EXCEPT ![t] = StatusOn(boardTasks, t)]
    /\ UNCHANGED <<mounted, boardTasks, loading, error, moveOf>>
    /\ UNCHANGED <<captured, accountVars, permVars, dbVars, netVars>>

DropTargets == columns \cup TaskIds \cup {Null}

\* the list handleDragOver leaves
DraggedOver(list, activeId, overId) ==
    LET activeContainer == StatusOn(list, activeId)
        overContainer == IF overId \in columns THEN overId ELSE StatusOn(list, overId)
    IN  IF \/ overId = Null
           \/ activeContainer = Undefined
           \/ overContainer = Undefined
           \/ activeContainer = overContainer
        THEN list
        ELSE SetStatus(list, activeId, overContainer)

\* a variant that saves the hovered column at once
handleDragOverSaving(o) ==
    /\ Interactive
    /\ drag.active # Null
    /\ o # drag.over
    /\ o \in columns \cup Ids(boardTasks) \cup {Null}
    /\ drag' = [drag EXCEPT !.over = o]
    /\ IF DraggedOver(boardTasks, drag.active, o) # boardTasks /\ HasFreeSlot
       THEN handleTaskStatusChange(FreeSlot, drag.active,
                                   StatusOn(DraggedOver(boardTasks, drag.active, o),
                                            drag.active))
       ELSE UNCHANGED <<boardTasks, reqs>>
    /\ UNCHANGED <<mounted, loading, error, activeTask, originalTaskStatus, moveOf>>
    /\ UNCHANGED <<captured, accountVars, permVars, dbVars>>

\* dnd-kit reports the droppable under the card each time it changes
handleDragOver(o) ==
    /\ Interactive
    /\ drag.active # Null
    /\ o # drag.over
    /\ o \in columns \cup Ids(boardTasks) \cup {Null}
    /\ drag' = [drag EXCEPT !.over = o]
    /\ boardTasks' = DraggedOver(boardTasks, drag.active, o)
    /\ UNCHANGED <<mounted, loading, error, activeTask, originalTaskStatus, moveOf>>
    /\ UNCHANGED <<captured, accountVars, permVars, dbVars, netVars>>

\* a variant that takes only a column as a drop target
newStatusColumnOnly(list, over, originalStatus) ==
    IF over \in columns THEN over ELSE originalStatus

\* the status handleDragEnd settles on
newStatus(list, over, originalStatus) ==
    IF over \in columns
    THEN over
    ELSE IF over \in Ids(list) THEN StatusOn(list, over) ELSE originalStatus

handleDragEnd ==
    /\ Interactive
    /\ drag.active # Null
    /\ LET taskId == drag.active
           over == drag.over
           originalStatus == originalTaskStatus[taskId]
           final == newStatus(boardTasks, over, originalStatus)
       IN  /\ activeTask' = Null
           /\ originalTaskStatus' = [originalTaskStatus EXCEPT ![taskId] = Undefined]
           /\ drag' = NoDrag
           /\ IF /\ over # Null
                 /\ taskId \in Ids(boardTasks)
                 /\ originalStatus # Undefined
                 /\ final # originalStatus
              THEN /\ HasFreeSlot
                   /\ handleTaskStatusChange(FreeSlot, taskId, final)
                   /\ moveOf' = [moveOf EXCEPT ![FreeSlot] =
                                    IF reqs = {}
                                    THEN [task |-> taskId, from |-> originalStatus,
                                          code |-> 0]
                                    ELSE NoMove]
              ELSE UNCHANGED <<boardTasks, reqs, moveOf>>
    /\ UNCHANGED <<mounted, loading, error>>
    /\ UNCHANGED <<captured, accountVars, permVars, dbVars>>

\* a status button of a card: TaskCard calls onStatusChange(task.id, s); the
\* button of the card's own status is not rendered
StatusButton(t, s) ==
    /\ Interactive
    /\ drag.active = Null
    /\ t \in Ids(boardTasks)
    /\ s # StatusOn(boardTasks, t)
    /\ HasFreeSlot
    /\ handleTaskStatusChange(FreeSlot, t, s)
    /\ UNCHANGED <<mounted, loading, error, activeTask, originalTaskStatus, drag, moveOf>>
    /\ UNCHANGED <<captured, accountVars, permVars, dbVars>>

\* the Retry button of the error view
Retry ==
    /\ mounted /\ ~loading /\ error # Null
    /\ HasFreeSlot
    /\ loadTasks(FreeSlot, reqs)
    /\ UNCHANGED <<mounted, boardTasks, activeTask, originalTaskStatus, moveOf>>
    /\ UNCHANGED <<captured, accountVars, permVars, dbVars>>

\* fetch rejects: the request never arrives, or its response is lost
NetworkError(r) ==
    /\ r.src \in Slots
    /\ r.pc = "sent" \/ (r.pc = "done" /\ r.code # 0)
    /\ Step(r, Respond(r, 0, "Failed to fetch", NoResult))
    /\ UNCHANGED <<captured, accountVars, permVars, boardVars, dbVars>>

\* updateTaskStatus settles: the rest of handleTaskStatusChange
MoveSettled(r) ==
    /\ r.src \in Slots /\ r.method = "PATCH" /\ r.pc = "done"
    /\ IF Ok(r.code)
       THEN /\ reqs' = reqs \ {r}
            /\ moveOf' = [moveOf EXCEPT ![r.src] = NoMove]
            /\ UNCHANGED <<loading, error, drag>>
       ELSE /\ loadTasks(r.src, reqs \ {r})
            /\ moveOf' = [moveOf EXCEPT ![r.src] =
                             IF @ = NoMove THEN @ ELSE [@ EXCEPT !.code = r.code]]
    /\ UNCHANGED <<mounted, boardTasks, activeTask, originalTaskStatus>>
    /\ UNCHANGED <<captured, accountVars, permVars, dbVars>>

\* getTasks settles: the rest of loadTasks
LoadSettled(r) ==
    /\ r.src \in Slots /\ r.method = "GET" /\ r.pc = "done"
    /\ reqs' = reqs \ {r}
    /\ moveOf' = [moveOf EXCEPT ![r.src] = NoMove]
    /\ IF Ok(r.code)
       THEN /\ boardTasks' = {[id |-> e.id, task |-> e.task] : e \in r.result}
            /\ UNCHANGED error
       ELSE /\ error' = "Failed to fetch tasks"
            /\ UNCHANGED boardTasks
    /\ loading' = FALSE
    /\ drag' = IF error' = Null THEN drag ELSE NoDrag
    /\ UNCHANGED <<mounted, activeTask, originalTaskStatus>>
    /\ UNCHANGED <<captured, accountVars, permVars, dbVars>>

\* JSON.stringify of a task of the board: the body of updateTask; a field
\* that is undefined is left out
RECURSIVE ListOf(_)
ListOf(set) ==
    IF set = {} THEN <<>>
    ELSE LET x == CHOOSE y \in set : TRUE IN <<x>> \o ListOf(set \ {x})

TaskBody(task) ==
    [status |-> task.status, title |-> task.title, description |-> task.description,
     priority |-> task.priority, dueDate |-> task.dueDate, assignee |-> task.assignee,
     tags |-> Tags(ListOf(task.tags)), json |-> TRUE]

\* handleTaskUpdate up to its await, called by the edit dialog with the
\* card's task under a new title; the handler is the one of the current
\* render and closes over its list
handleTaskUpdate(t, title) ==
    /\ Interactive
    /\ drag.active = Null
    /\ t \in Ids(boardTasks)
    /\ HasFreeSlot
    /\ LET entry == CHOOSE e \in boardTasks : e.id = t
           updatedTask == [entry.task EXCEPT !.title = title]
       IN  reqs' = reqs \cup {BoardRequest(FreeSlot, "PUT", t, TaskBody(updatedTask))}
    /\ captured' = [captured EXCEPT ![FreeSlot] = boardTasks]
    /\ UNCHANGED <<mounted, boardTasks, loading, error, activeTask, originalTaskStatus,
                   drag, moveOf>>
    /\ UNCHANGED <<accountVars, permVars, dbVars>>

\* updateTask settles: the rest of handleTaskUpdate
UpdateSettled(r) ==
    /\ r.src \in Slots /\ r.method = "PUT" /\ r.pc = "done"
    /\ reqs' = reqs \ {r}
    /\ captured' = [captured EXCEPT ![r.src] = {}]
    /\ IF Ok(r.code)
       THEN /\ boardTasks' =
                  {IF e.id = r.taskId
                   THEN CHOOSE dbTask \in r.result : TRUE
                   ELSE e : e \in captured[r.src]}
            /\ UNCHANGED error
       ELSE /\ error' = "Failed to update task"
            /\ UNCHANGED boardTasks
    /\ UNCHANGED <<mounted, loading, activeTask, originalTaskStatus, drag, moveOf>>
    /\ UNCHANGED <<accountVars, permVars, dbVars>>

\* the task rows of the seed, t1 assigned to a
SeedTasks(a) ==
    [t \in TaskIds |->
        CASE t = "t1" -> Row("T1", "TODO", a, {})
          [] t = "t2" -> Row("T2", "DONE", "a2", {"x"})
          [] OTHER -> NoRow]

InitDb ==
    /\ \E a \in AssigneeIds \cup {Null} : tasks = SeedTasks(a)
    /\ tagTable = {"x"}

\* the user rows of the seed; nobody has logged in on this browser
StorageKeys == {"auth_token", "user_data", "token"}
InitAccounts ==
    /\ users = UserTable
    /\ localStorage = [k \in StorageKeys |-> Null]

\* usePermissions before its first render
NoHook ==
    [evaluated |-> FALSE, canCreate |-> FALSE, canEdit |-> FALSE,
     canDelete |-> FALSE, canAssign |-> FALSE, canMove |-> FALSE,
     canView |-> FALSE, canChangePriority |-> FALSE,
     canChangeDueDate |-> FALSE, canManageTags |-> FALSE, userRole |-> Null]

ServerInit ==
    /\ ctx = CHOOSE c \in PermissionContext : TRUE
    /\ perms = NoPerms
    /\ authUser = NoUser
    /\ hookPerms = NoHook
    /\ InitDb
    /\ InitAccounts
    /\ reqs = {}
    /\ BoardUnmounted

ServerNext ==
    \/ ApiPut \/ ApiPatch \/ ApiDelete \/ ApiPost \/ ApiGet
    \/ ApiReceive
    \/ ServerStep

ServerSpec == ServerInit /\ [][ServerNext]_vars

(***************************************************************************)
(* Specification of the board against the endpoints: it mounts, loads,     *)
(* and takes gestures while its requests are served.                       *)
(***************************************************************************)
BoardInit ==
    /\ ServerInit
    /\ tasks["t1"].assigneeId = "a1"

BoardNext ==
    \/ Mount
    \/ \E t \in TaskIds : handleDragStart(t)
    \/ \E o \in DropTargets : handleDragOver(o)
    \/ handleDragEnd
    \/ Retry
    \/ \E r \in reqs : NetworkError(r)
    \/ \E r \in reqs : MoveSettled(r)
    \/ \E r \in reqs : LoadSettled(r)
    \/ ServerStep

BoardSpec == BoardInit /\ [][BoardNext]_vars

(***************************************************************************)
(* Specification of the board with its status buttons, on a page that can  *)
(* have MaxOverlap exchanges outstanding.                                  *)
(***************************************************************************)
OverlapInit ==
    /\ ctx = CHOOSE c \in PermissionContext : TRUE
    /\ perms = NoPerms
    /\ authUser = NoUser
    /\ hookPerms = NoHook
    /\ InitDb
    /\ InitAccounts
    /\ tasks["t1"].assigneeId = "a1"
    /\ reqs = {}
    /\ Unmounted(MaxOverlap)

OverlapNext ==
    \/ BoardNext
    \/ \E t \in TaskIds, s \in columns : StatusButton(t, s)

OverlapSpec == OverlapInit /\ [][OverlapNext]_vars

(***************************************************************************)
(* Specification of the board's handling of a refused Move: the board is   *)
(* loaded, one Move of it has been answered, and the answer is drawn from   *)
(* the refusals PATCH has.                                                 *)
(***************************************************************************)
\* the non-ok answers of PATCH /api/tasks/[id]
PatchRefusals ==
    {<<401, "Authentication required">>,
     <<403, "You can only move tasks assigned to you">>,
     <<404, "Task not found">>,
     <<500, "Failed to update task status">>}

ReplyInit ==
    /\ ctx = CHOOSE c \in PermissionContext : TRUE
    /\ perms = NoPerms
    /\ authUser = NoUser
    /\ hookPerms = NoHook
    /\ InitDb
    /\ InitAccounts
    /\ tasks["t1"].assigneeId = "a1"
    /\ mounted = TRUE
    /\ loading = FALSE
    /\ error = Null
    /\ activeTask = Null
    /\ originalTaskStatus = [t \in TaskIds |-> Undefined]
    /\ drag = NoDrag
    /\ \E t \in {"t1", "t2"}, s \in columns, p \in PatchRefusals :
          /\ s # statusFromEnum(tasks[t].status)
          /\ boardTasks =
                SetStatus({WithId(u, transformTaskFromDb(tasks[u])) :
                              u \in {v \in TaskIds : tasks[v].exists}}, t, s)
          /\ reqs = {Respond(BoardRequest("b1", "PATCH", t, [NoBody EXCEPT !.status = s]),
                             p[1], p[2], NoResult)}
          /\ moveOf = [b \in SlotsUpTo(MaxPending) |->
                          [task |-> t, from |-> statusFromEnum(tasks[t].status),
                           code |-> 0]]
    /\ captured = [b \in SlotsUpTo(MaxPending) |-> {}]

ReplyNext ==
    \/ \E t \in TaskIds : handleDragStart(t)
    \/ \E o \in DropTargets : handleDragOver(o)
    \/ handleDragEnd
    \/ Retry
    \/ \E r \in reqs : NetworkError(r)
    \/ \E r \in reqs : MoveSettled(r)
    \/ \E r \in reqs : LoadSettled(r)
    \/ ServerStep

ReplySpec == ReplyInit /\ [][ReplyNext]_vars

(***************************************************************************)
(* Specification of the board's handling of the answer to an Update: the   *)
(* board is loaded and interactive, one Update of t2 by it is outstanding  *)
(* and has been answered, and the answer is drawn from those PUT has for a *)
(* request that is authorized (200, with the row written) and for one that *)
(* is not (401).                                                           *)
(***************************************************************************)
EditTitles == {"T3"}

EditInit ==
    /\ ctx = CHOOSE c \in PermissionContext : TRUE
    /\ perms = NoPerms
    /\ authUser = NoUser
    /\ hookPerms = NoHook
    /\ InitAccounts
    /\ tagTable = {"x"}
    /\ mounted = TRUE
    /\ loading = FALSE
    /\ error = Null
    /\ activeTask = Null
    /\ originalTaskStatus = [t \in TaskIds |-> Undefined]
    /\ drag = NoDrag
    /\ moveOf = [b \in SlotsUpTo(MaxOverlap) |-> NoMove]
    /\ \E code \in {200, 401}, title \in EditTitles :
          LET before == SeedTasks("a1")
              list == {WithId(u, transformTaskFromDb(before[u])) :
                          u \in {v \in TaskIds : before[v].exists}}
              body == TaskBody([transformTaskFromDb(before["t2"]) EXCEPT !.title = title])
              row == PutUpdateData(body, before["t2"])
              request == BoardRequest("b1", "PUT", "t2", body)
          IN  /\ boardTasks = list
              /\ captured = [b \in SlotsUpTo(MaxOverlap) |-> IF b = "b1" THEN list ELSE {}]
              /\ IF code = 200
                 THEN /\ tasks = [before EXCEPT !["t2"] = row]
                      /\ reqs = {Respond(request, 200, "", OneResult("t2", row))}
                 ELSE /\ tasks = before
                      /\ reqs = {Respond(request, 401, "Authentication required",
                                         NoResult)}

EditNext ==
    \/ \E t \in TaskIds, title \in EditTitles : handleTaskUpdate(t, title)
    \/ \E r \in reqs : UpdateSettled(r)
    \/ \E t \in TaskIds, s \in columns : StatusButton(t, s)
    \/ \E r \in reqs : MoveSettled(r)
    \/ \E r \in reqs : LoadSettled(r)
    \/ Retry
    \/ ServerStep

EditSpec == EditInit /\ [][EditNext]_vars

(***************************************************************************)
(* Specification of two callers against the endpoints: each sends one      *)
(* request at a time, and the handlers of their requests take their steps  *)
(* (one store call each) in any order.                                     *)
(***************************************************************************)
Callers == {"c1", "c2"}

\* two updates of t1 by the administrator, each with a title and a tags list
RaceBodies ==
    {[NoBody EXCEPT !.title = "T2", !.tags = Tags(<<"y">>)],
     [NoBody EXCEPT !.title = "T3", !.tags = Tags(<<"x">>)]}

RacePut ==
    /\ \E c \in Callers, b \in RaceBodies :
          Issue(Request(c, "PUT", Bearer(TokenOf("uA")), "t1", b))
    /\ UNCHANGED <<captured, accountVars, permVars, boardVars, dbVars>>

RaceGet ==
    /\ \E c \in Callers : Issue(Request(c, "GET", NoHeader, "", NoBody))
    /\ UNCHANGED <<captured, accountVars, permVars, boardVars, dbVars>>

RaceReceive ==
    /\ \E r \in reqs :
          /\ r.src \in Callers
          /\ r.pc = "done"
          /\ reqs' = reqs \ {r}
    /\ UNCHANGED <<captured, accountVars, permVars, boardVars, dbVars>>

RaceNext ==
    \/ RacePut
    \/ RaceGet
    \/ RaceReceive
    \/ ServerStep

RaceSpec == ServerInit /\ [][RaceNext]_vars

(***************************************************************************)
(* Specification of a request against a concurrent one: "c1" sends a Move, *)
(* an Update that changes the status, or a Delete of t1 as the             *)
(* administrator or as the employee t1 is assigned to, while "c2", the     *)
(* administrator, deletes t1 or reassigns it.                              *)
(***************************************************************************)
Actors == {"uA", "uE"}

ActorRequest ==
    /\ \E u \in Actors :
          \/ Issue(Request("c1", "PATCH", Bearer(TokenOf(u)), "t1",
                           [NoBody EXCEPT !.status = "done"]))
          \/ Issue(Request("c1", "PUT", Bearer(TokenOf(u)), "t1",
                           [NoBody EXCEPT !.status = "done"]))
          \/ Issue(Request("c1", "DELETE", Bearer(TokenOf(u)), "t1", NoBody))
    /\ UNCHANGED <<captured, accountVars, permVars, boardVars, dbVars>>

ConcurrentDelete ==
    /\ Issue(Request("c2", "DELETE", Bearer(TokenOf("uA")), "t1", NoBody))
    /\ UNCHANGED <<captured, accountVars, permVars, boardVars, dbVars>>

ConcurrentReassign ==
    /\ \E name \in {"Alice", "Bob"} :
          Issue(Request("c2", "PUT", Bearer(TokenOf("uA")), "t1",
                        [NoBody EXCEPT !.assignee = name]))
    /\ UNCHANGED <<captured, accountVars, permVars, boardVars, dbVars>>

InterleaveNext ==
    \/ ActorRequest
    \/ ConcurrentDelete
    \/ ConcurrentReassign
    \/ RaceReceive
    \/ ServerStep

InterleaveSpec == BoardInit /\ [][InterleaveNext]_vars

(***************************************************************************)
(* Specification of a session: a user logs in and out on the browser that  *)
(* shows the board, and the board loads and moves cards with its status    *)
(* buttons.                                                                *)
(***************************************************************************)
\* the user of the login response: the route selects neither role nor
\* assigneeId
LoginUser(u) == [id |-> u, role |-> Undefined, assigneeId |-> Undefined]

\* login with the right password of user u: the exchange with
\* /api/auth/login and the rest of login
Login(u) ==
    /\ authUser = NoUser
    /\ u \in DOMAIN users
    /\ localStorage' = [localStorage EXCEPT !["auth_token"] = TokenOf(u),
                                            !["user_data"] = LoginUser(u)]
    /\ authUser' = LoginUser(u)
    /\ UNCHANGED <<captured, users, ctx, perms, hookPerms, dbVars, netVars, boardVars>>

logout ==
    /\ authUser # NoUser
    /\ localStorage' = [localStorage EXCEPT !["auth_token"] = Null,
                                            !["user_data"] = Null]
    /\ authUser' = NoUser
    /\ UNCHANGED <<captured, users, ctx, perms, hookPerms, dbVars, netVars, boardVars>>

SessionNext ==
    \/ \E u \in DOMAIN UserTable : Login(u)
    \/ logout
    \/ Mount
    \/ \E t \in TaskIds, s \in columns : StatusButton(t, s)
    \/ \E r \in reqs : MoveSettled(r)
    \/ \E r \in reqs : LoadSettled(r)
    \/ ServerStep

SessionSpec == BoardInit /\ [][SessionNext]_vars

(***************************************************************************)
(* Specification of user management: an administrator, "adm", changes the  *)
(* role of users and deletes a user, while a caller sends task requests    *)
(* with the tokens of these users.                                         *)
(***************************************************************************)
RoleTargets == {"uE", "uA"}
NewRoles == {"VIEWER", "SUPERVISOR"}
DeleteTargets == {"uF"}
TokenHolders == {"uE", "uF", "uA"}

AdminPut ==
    /\ \E u \in RoleTargets, role \in NewRoles :
          Issue(Request("adm", "PUT users", Bearer(TokenOf("uA")), u,
                        [NoUserBody EXCEPT !.role = role]))
    /\ UNCHANGED <<captured, accountVars, permVars, boardVars, dbVars>>

AdminDelete ==
    /\ \E u \in DeleteTargets \cup {"uA"} :
          Issue(Request("adm", "DELETE users", Bearer(TokenOf("uA")), u, NoUserBody))
    /\ UNCHANGED <<captured, accountVars, permVars, boardVars, dbVars>>

AdminReceive ==
    /\ \E r \in reqs :
          /\ r.src = "adm"
          /\ r.pc = "done"
          /\ reqs' = reqs \ {r}
    /\ UNCHANGED <<captured, accountVars, permVars, boardVars, dbVars>>

\* a Move or a deletion of t1 with the token of one of the users
HolderRequest ==
    /\ \E u \in TokenHolders :
          \/ Issue(Request("c1", "PATCH", Bearer(TokenOf(u)), "t1",
                           [NoBody EXCEPT !.status = "done"]))
          \/ Issue(Request("c1", "DELETE", Bearer(TokenOf(u)), "t1", NoBody))
    /\ UNCHANGED <<captured, accountVars, permVars, boardVars, dbVars>>

UserNext ==
    \/ AdminPut
    \/ AdminDelete
    \/ AdminReceive
    \/ HolderRequest
    \/ ApiReceive
    \/ ServerStep
    \/ UserServerStep

UserSpec == BoardInit /\ [][UserNext]_vars

(***************************************************************************)
(* Specification of creation: a caller creates tasks with full, minimal    *)
(* and irregular bodies, sets the assignee of t1 by name, and reads the    *)
(* list.                                                                   *)
(***************************************************************************)
CreateBodies ==
    {[NoBody EXCEPT !.title = "T3", !.description = "D2", !.priority = "high",
                    !.status = "in-progress", !.dueDate = "2025-01-02",
                    !.assignee = "Bob", !.tags = Tags(<<"y", "x">>)],
     [NoBody EXCEPT !.title = "T3", !.priority = "low", !.status = "todo"],
     [NoBody EXCEPT !.title = "", !.priority = "low", !.status = "todo",
                    !.tags = Tags(<<"y">>)],
     [NoBody EXCEPT !.priority = "low", !.status = "todo", !.tags = Tags(<<"y">>)],
     [NoBody EXCEPT !.title = "T3", !.priority = "medium", !.status = "done",
                    !.assignee = "Zed"],
     [NoBody EXCEPT !.title = "T3", !.priority = "medium", !.status = "done",
                    !.assignee = "bob"]}

\* updates of t1 that name an assignee, or none
AssignBodies ==
    {[NoBody EXCEPT !.assignee = a] : a \in {"Alice", "Bob", "Zed", "bob", ""}}
    \cup {[NoBody EXCEPT !.title = "T2"]}

CreatorHeaders == {Bearer(TokenOf("uA")), Bearer(TokenOf("uS"))}

CreatePost ==
    /\ \E t \in CreatedIds : ~tasks[t].exists
    /\ \E h \in CreatorHeaders, b \in CreateBodies :
          Issue(Request("c1", "POST", h, "", b))
    /\ UNCHANGED <<captured, accountVars, permVars, boardVars, dbVars>>

CreatePut ==
    /\ \E b \in AssignBodies :
          Issue(Request("c1", "PUT", Bearer(TokenOf("uA")), "t1", b))
    /\ UNCHANGED <<captured, accountVars, permVars, boardVars, dbVars>>

CreateNext ==
    \/ CreatePost
    \/ CreatePut
    \/ ApiGet
    \/ ApiReceive
    \/ ServerStep

CreateSpec == ServerInit /\ [][CreateNext]_vars

(***************************************************************************)
(* Specification of the evaluator alone: a context is drawn and evaluated   *)
(***************************************************************************)
\* useAuth().user: null, or the stored user of a login
AuthUsers == {NoUser} \cup {UserTable[u] : u \in DOMAIN UserTable}

\* the permissions memo of usePermissions(task); the decisions of a logged-in
\* user are those of getUserPermissions
usePermissions(user, task) ==
    IF user = NoUser
    THEN [evaluated |-> TRUE, canCreate |-> FALSE, canEdit |-> FALSE,
          canDelete |-> FALSE, canAssign |-> FALSE, canMove |-> FALSE,
          canView |-> TRUE, canChangePriority |-> FALSE,
          canChangeDueDate |-> FALSE, canManageTags |-> FALSE, userRole |-> Null]
    ELSE LET context == [userRole |-> user.role,
                         userId |-> user.id,
                         userAssigneeId |-> OrNull(user.assigneeId),
                         taskOwnerId |-> OrNull(task.ownerId),
                         taskAssigneeId |-> OrNull(task.assigneeId)]
             decisions == getUserPermissions(context)
         IN  [evaluated |-> TRUE, canCreate |-> decisions.canCreate,
              canEdit |-> decisions.canEdit, canDelete |-> decisions.canDelete,
              canAssign |-> decisions.canAssign, canMove |-> decisions.canMove,
              canView |-> decisions.canView,
              canChangePriority |-> decisions.canChangePriority,
              canChangeDueDate |-> decisions.canChangeDueDate,
              canManageTags |-> decisions.canManageTags, userRole |-> user.role]

PermInit ==
    /\ ctx \in PermissionContext
    /\ perms = NoPerms
    /\ authUser \in AuthUsers
    /\ hookPerms = NoHook
    /\ InitDb
    /\ InitAccounts
    /\ reqs = {}
    /\ BoardUnmounted

\* getUserPermissions applied to the context
Evaluate ==
    /\ ~perms.evaluated
    /\ perms' = getUserPermissions(ctx)
    /\ UNCHANGED <<ctx, authUser, hookPerms, dbVars, netVars, boardVars, accountVars, captured>>

\* a component renders with usePermissions(task), the task being the one of
\* the context
Render ==
    /\ ~hookPerms.evaluated
    /\ hookPerms' = usePermissions(authUser, [ownerId |-> ctx.taskOwnerId,
                                              assigneeId |-> ctx.taskAssigneeId])
    /\ UNCHANGED <<ctx, perms, authUser, dbVars, netVars, boardVars, accountVars, captured>>

PermNext == Evaluate \/ Render

PermSpec == PermInit /\ [][PermNext]_vars

(***************************************************************************)
(* Properties of the permission evaluator (checked under PermSpec)         *)
(***************************************************************************)
Privileged(role) == role \in {"ADMIN", "SUPERVISOR"}
HasLink(a) == a \notin {Null, Undefined}

\* the move rule as the specification states it
MoveAllowed(role, link, assignee) ==
    \/ Privileged(role)
    \/ role = "EMPLOYEE" /\ HasLink(link) /\ link = assignee

\* C1: canMoveTask is true exactly for ADMIN and SUPERVISOR and for an
\* EMPLOYEE whose assignee link is present and identical to the task's
\* assignee reference, also when the optional fields are null or absent; it
\* is false for VIEWER, and giving the task another non-null assignee turns
\* an EMPLOYEE's true into false.
C1_CanMoveRule ==
    perms.evaluated =>
        /\ perms.canMove
              <=> MoveAllowed(ctx.userRole, ctx.userAssigneeId, ctx.taskAssigneeId)
        /\ ctx.userRole = "VIEWER" => ~perms.canMove
        /\ (ctx.userRole = "EMPLOYEE" /\ perms.canMove) =>
              \A a \in AssigneeIds \ {ctx.taskAssigneeId} :
                 ~canMoveTask([ctx EXCEPT !.taskAssigneeId = a])

\* C2: each of canCreate, canEdit, canDelete, canAssign, canChangePriority,
\* canChangeDueDate and canManageTags is true exactly when the role is ADMIN
\* or SUPERVISOR, whatever the owner, the assignee and the actor are.
C2_PrivilegedOnly ==
    perms.evaluated =>
        /\ perms.canCreate <=> Privileged(ctx.userRole)
        /\ perms.canEdit <=> Privileged(ctx.userRole)
        /\ perms.canDelete <=> Privileged(ctx.userRole)
        /\ perms.canAssign <=> Privileged(ctx.userRole)
        /\ perms.canChangePriority <=> Privileged(ctx.userRole)
        /\ perms.canChangeDueDate <=> Privileged(ctx.userRole)
        /\ perms.canManageTags <=> Privileged(ctx.userRole)

\* an EMPLOYEE who owns the task and is its assignee has been evaluated
C2_Witness ==
    /\ perms.evaluated
    /\ ctx.userRole = "EMPLOYEE"
    /\ ctx.taskOwnerId = ctx.userId
    /\ ctx.userAssigneeId = "a1"
    /\ ctx.taskAssigneeId = "a1"
    /\ ~perms.canEdit /\ ~perms.canDelete /\ ~perms.canManageTags

(***************************************************************************)
(* Properties of the task endpoints (checked under ServerSpec)             *)
(***************************************************************************)
\* the requests that take a step in the transition
Stepping == {r \in reqs : r \notin reqs'}
\* what a request has become after its step
After(r) == {q \in reqs' \ reqs : q.src = r.src}

LinkOf(user) == user.assigneeId

ContainsAssignedToYou(msg) == msg = "You can only move tasks assigned to you"

\* every column of a row except its status
Fields(row) == [row EXCEPT !.status = "TODO"]

\* C3: PATCH changes a task's stored status only when the move rule holds
\* for the actor against the task's stored assignee; when it does not hold
\* the answer is 403 with a message containing "assigned to you" and the
\* store is unchanged.
C3_MoveGated ==
    [][\A r \in Stepping :
          (r.method = "PATCH" /\ r.pc \in {"authed", "allowed"} /\ RowExists(r.taskId)) =>
             IF MoveAllowed(r.user.role, LinkOf(r.user), tasks[r.taskId].assigneeId)
             THEN \A t \in TaskIds : Fields(tasks'[t]) = Fields(tasks[t])
             ELSE /\ UNCHANGED dbVars
                  /\ \A q \in After(r) :
                        /\ q.pc = "done"
                        /\ q.code = 403
                        /\ ContainsAssignedToYou(q.error)]_vars

\* an EMPLOYEE linked to a1 was refused the move of a task assigned to a2
C3_Witness ==
    \E r \in reqs :
        /\ r.method = "PATCH" /\ r.pc = "done" /\ r.code = 403
        /\ r.user.role = "EMPLOYEE" /\ r.user.assigneeId = "a1"
        /\ r.taskId = "t1" /\ tasks["t1"].assigneeId = "a2"
        /\ r.body.status = "done" /\ tasks["t1"].status = "TODO"

\* the outcome of the PUT handler's permission check, for a request that has
\* passed the lookup: TRUE when it went on to the write
PutChecked(r) ==
    /\ r.method = "PUT"
    /\ r.pc = "allowed" \/ (r.pc = "done" /\ r.code = 403)
PutPassed(r) == r.pc = "allowed"

RuleFor(isMove, r) ==
    IF isMove
    THEN MoveAllowed(r.user.role, LinkOf(r.user), tasks[r.taskId].assigneeId)
    ELSE Privileged(r.user.role)

StatusNames == {"todo", "in-progress", "done"}
\* the column a status value of a request body stands for
Column(s) == IF s \in StatusNames THEN s ELSE "todo"

C5_EmployeeCannotEdit ==
    [][\A r \in Stepping :
          r.user.role = "EMPLOYEE" =>
             /\ \A t \in TaskIds : Fields(tasks'[t]) = Fields(tasks[t])
             /\ \A t \in TaskIds :
                   tasks'[t].status # tasks[t].status =>
                      HasLink(LinkOf(r.user)) /\ tasks[t].assigneeId = LinkOf(r.user)
             /\ tagTable' = tagTable]_vars

\* C6: no request of a VIEWER changes the store, and each of its mutating
\* requests is answered 403, or 404 when the task is unknown.
C6_ViewerReadOnly ==
    [][\A r \in Stepping :
          r.user.role = "VIEWER" =>
             /\ UNCHANGED dbVars
             /\ \A q \in After(r) :
                   /\ q.pc = "done"
                   /\ q.code = IF r.method = "POST" \/ RowExists(r.taskId)
                               THEN 403 ELSE 404]_vars

(***************************************************************************)
(* Properties of the board (checked under BoardSpec)                       *)
(***************************************************************************)
\* the steps of a gesture, told by what dnd-kit tracks
DragStarts == drag.active = Null /\ drag'.active # Null
DragMoves == drag.active # Null /\ drag'.active = drag.active /\ drag'.over # drag.over
\* the gesture ends with the board still rendered: onDragEnd
Drops == drag.active # Null /\ drag'.active = Null /\ ~loading' /\ error' = Null

\* the card's column on the board
Shown(list, t) == StatusOn(list, t)

\* the final status of a drop as the specification computes it
FinalStatus ==
    IF drag.over \in columns
    THEN drag.over
    ELSE IF drag.over \in Ids(boardTasks)
         THEN Shown(boardTasks, drag.over)
         ELSE originalTaskStatus[drag.active]

Issued == reqs' \ reqs

Settles(r) ==
    /\ r.src \in Slots
    /\ r.pc = "done"
    /\ \A q \in reqs' : q.src = r.src => q.method # r.method

\* the refetch follows a Move request the server refused, issued by a drop
\* made while nothing else was outstanding
Denied(move) == move.task # Null /\ move.code \in {401, 403, 404}

\* C8: whenever a Move request of the board fails, the board fetches the
\* full list again and replaces its whole local list with the response;
\* once the refetch after a denied move has completed, the card is shown in
\* the column it was dragged from.
C8_FailedMoveRestores ==
    [][\A r \in reqs :
          Settles(r) =>
             /\ (r.method = "PATCH" /\ ~Ok(r.code)) =>
                   \E q \in Issued :
                      q.src = r.src /\ q.method = "GET" /\ q.pc = "sent"
             /\ (r.method = "GET" /\ Ok(r.code)) =>
                   /\ Ids(boardTasks') = Ids(r.result)
                   /\ \A e \in r.result : Shown(boardTasks', e.id) = e.task.status
                   /\ Denied(moveOf[r.src]) =>
                         Shown(boardTasks', moveOf[r.src].task) = moveOf[r.src].from]_vars

\* C9: a drag that reassigned the card to a hovered column and ends with no
\* drop target leaves the card, on the board, in the column recorded at
\* drag start.
C9_CancelledDragReturns ==
    [][(Drops /\ drag.over = Null) =>
          Shown(boardTasks', drag.active) = originalTaskStatus[drag.active]]_vars

\* C10: drag start and drag over issue no request and change nothing that
\* is persisted, and neither does a drop outside every target: a gesture of
\* a start, any drag-overs and such a drop leaves the requests and the
\* store as they were.
C10_DragIsLocal ==
    [][(DragStarts \/ DragMoves \/ (Drops /\ drag.over = Null)) =>
          UNCHANGED <<reqs, tasks, tagTable>>]_vars

\* after a start on t1, a hover over done and a drop outside, the board
\* shows t1 in done, the store holds TODO and no request is outstanding
C10_Witness ==
    /\ Interactive
    /\ drag = NoDrag
    /\ activeTask = Null
    /\ originalTaskStatus["t1"] = Undefined
    /\ Shown(boardTasks, "t1") = "done"
    /\ tasks["t1"].status = "TODO"
    /\ reqs = {}

\* the Move requests of the board that have not settled
PendingMoves == {r \in reqs : r.src \in Slots /\ r.method = "PATCH"}

\* C11: while a Move request issued by the board has not settled, the board
\* issues no second Move request, neither by a drop nor by a status button.
C11_SinglePending ==
    [][PendingMoves # {} =>
          \A q \in Issued : ~(q.src \in Slots /\ q.method = "PATCH")]_vars

\* the names of a tags list
NamesOf(list) == {list[k] : k \in 1..Len(list)}

\* C12: after a successful update whose body has a tags list, the names
\* associated with the task are exactly the names of the list, whatever was
\* associated before and whether or not the list repeats a name; each name
\* of the list has a tag, and names that differ in case are different tags.
C12_TagsReplaced ==
    [][\A r \in Stepping : \A q \in After(r) :
          (r.method = "PUT" /\ r.body.tags.present /\ q.pc = "done" /\ q.code = 200) =>
             /\ tasks'[r.taskId].tags = NamesOf(r.body.tags.list)
             /\ NamesOf(r.body.tags.list) \subseteq tagTable']_vars

\* an update with the list X, x, X was answered 200 on a task that had y:
\* the task has X and x, and y is still a tag but no longer the task's
C12_Witness ==
    \E r \in reqs :
       /\ r.method = "PUT" /\ r.pc = "done" /\ r.code = 200
       /\ r.body.tags.list = <<"X", "x", "X">>
       /\ tasks[r.taskId].tags = {"X", "x"}
       /\ "y" \in tagTable

\* the title and tag names of t1 before any update and after each update
\* of RaceBodies applied whole
WholeStates ==
    {<<"T1", {}>>} \cup {<<b.title, NamesOf(b.tags.list)>> : b \in RaceBodies}

\* C13: a GET /tasks that runs while an update of a task is being handled
\* returns the task as it was before the update or as it is after it, never
\* with the update's fields and another tag set.
C13_ReadersSeeWholeUpdates ==
    \A r \in reqs :
       (r.method = "GET" /\ r.pc = "done" /\ r.code = 200) =>
          \A e \in r.result :
             e.id = "t1" => <<e.task.title, e.task.tags>> \in WholeStates

\* C14: once two updates of the same task, sent by two callers, have both
\* completed, both were answered 200 and the task's title and tag set are
\* those of one of the two requests.
C14_UpdatesSerialized ==
    \A p, q \in reqs :
       (/\ p.src = "c1" /\ q.src = "c2"
        /\ p.method = "PUT" /\ q.method = "PUT"
        /\ p.pc = "done" /\ q.pc = "done") =>
          /\ p.code = 200 /\ q.code = 200
          /\ \E w \in {p, q} :
                /\ tasks["t1"].title = w.body.title
                /\ tasks["t1"].tags = NamesOf(w.body.tags.list)

\* C15: after PATCH /tasks/{id} with status s is answered 200, the persisted
\* status is s and GET /tasks shows the task under s, while the task's other
\* columns and tag links, every other task and the tags are unchanged,
\* whatever else the body holds.
C15_MoveStatusOnly ==
    [][\A r \in Stepping : \A q \in After(r) :
          (/\ r.method = "PATCH" /\ r.body.status # Undefined
           /\ q.pc = "done" /\ q.code = 200) =>
             /\ statusFromEnum(tasks'[r.taskId].status) = r.body.status
             /\ transformTaskFromDb(tasks'[r.taskId]).status = r.body.status
             /\ Fields(tasks'[r.taskId]) = Fields(tasks[r.taskId])
             /\ \A t \in TaskIds \ {r.taskId} : tasks'[t] = tasks[t]
             /\ tagTable' = tagTable]_vars

\* the request is a Move to the status the task has
MoveToSame(r) ==
    /\ r.method = "PATCH"
    /\ r.body.json
    /\ RowExists(r.taskId)
    /\ r.body.status = statusFromEnum(tasks[r.taskId].status)

StatusEnum == {"TODO", "IN_PROGRESS", "DONE"}

\* C17: every persisted task has a status that is one of todo, in-progress
\* and done, whatever status values, missing or unknown, the Create,
\* UpdateFields and Move requests carried.
C17_StatusAlwaysValid ==
    \A t \in TaskIds :
       tasks[t].exists =>
          /\ tasks[t].status \in StatusEnum
          /\ statusFromEnum(tasks[t].status) \in columns

\* a Create without a status was answered 200 and its task is in todo
C17_Witness ==
    \E r \in reqs :
       /\ r.method = "POST" /\ r.pc = "done" /\ r.code = 200
       /\ r.body.status = Undefined
       /\ tasks[r.taskId].exists
       /\ tasks[r.taskId].status = "TODO"

\* every mutation decision of a result is false
AllDenied(p) ==
    /\ ~p.canCreate /\ ~p.canEdit /\ ~p.canDelete /\ ~p.canAssign /\ ~p.canMove
    /\ ~p.canChangePriority /\ ~p.canChangeDueDate /\ ~p.canManageTags

\* C18: for a role outside ADMIN, SUPERVISOR, EMPLOYEE and VIEWER, or a
\* missing role, the evaluator returns false for every mutation decision;
\* for an EMPLOYEE it returns false for canMove when the task's assignee
\* reference is null, whatever the actor's link; and with no logged-in user
\* the hook reports every mutation permission as false.
C18_DenyByDefault ==
    /\ (perms.evaluated /\ ctx.userRole \notin Roles) => AllDenied(perms)
    /\ (perms.evaluated /\ ctx.userRole = "EMPLOYEE" /\ ctx.taskAssigneeId = Null)
          => ~perms.canMove
    /\ (hookPerms.evaluated /\ authUser = NoUser) => AllDenied(hookPerms)

\* the evaluator was called with a missing role and the hook rendered with
\* no user: both results hold no mutation permission
C18_Witness ==
    /\ perms.evaluated /\ ctx.userRole = Undefined
    /\ hookPerms.evaluated /\ authUser = NoUser
    /\ AllDenied(perms) /\ AllDenied(hookPerms)

\* the evaluator was called for an EMPLOYEE linked to a1 and a task with a
\* null assignee reference: canMove is false
C18_WitnessEmployee ==
    /\ perms.evaluated /\ ctx.userRole = "EMPLOYEE"
    /\ ctx.userAssigneeId = "a1" /\ ctx.taskAssigneeId = Null
    /\ ~perms.canMove

\* the ids of the persisted tasks
Existing(table) == {t \in TaskIds : table[t].exists}

\* C19: a step of a POST or DELETE request changes the store only for an
\* actor whose role may create or delete (ADMIN, SUPERVISOR); a request by
\* another role is answered 403 at the permission check with the store
\* unchanged; a permitted DELETE of an existing task without tag links is
\* answered 200 and removes the task whatever its assignee is, and one of a
\* task with tag links is answered 200 and removes it or is answered 500
\* with the store unchanged; GET /tasks returns exactly the persisted tasks.
C19_PermissionBeforeWrite ==
    [][\A r \in Stepping : \A q \in After(r) :
          /\ (r.method \in {"POST", "DELETE"} /\ tasks' # tasks)
                => Privileged(r.user.role)
          /\ (r.method = "POST" /\ Existing(tasks') # Existing(tasks))
                => (Privileged(r.user.role) /\ Existing(tasks) \subseteq Existing(tasks'))
          /\ (r.method = "POST" /\ r.pc = "authed" /\ ~Privileged(r.user.role))
                => (q.pc = "done" /\ q.code = 403 /\ UNCHANGED <<tasks, tagTable>>)
          /\ (/\ r.method = "DELETE" /\ r.pc = "authed" /\ RowExists(r.taskId)
              /\ ~Privileged(r.user.role))
                => (q.pc = "done" /\ q.code = 403 /\ UNCHANGED <<tasks, tagTable>>)
          /\ (r.method = "DELETE" /\ r.pc = "allowed" /\ RowExists(r.taskId))
                => /\ q.pc = "done"
                   /\ \/ q.code = 200 /\ Existing(tasks') = Existing(tasks) \ {r.taskId}
                      \/ /\ q.code = 500 /\ tasks[r.taskId].tags # {}
                         /\ UNCHANGED <<tasks, tagTable>>
                   /\ tasks[r.taskId].tags = {} => q.code = 200
          /\ (r.method = "GET" /\ q.pc = "done")
                => Ids(q.result) = Existing(tasks')]_vars

\* a supervisor's DELETE of t1, which had no assignee, was answered 200 and
\* t1 is no longer persisted
C19_Witness ==
    \E r \in reqs :
       /\ r.method = "DELETE" /\ r.pc = "done" /\ r.code = 200
       /\ r.user.role = "SUPERVISOR"
       /\ r.existing.found /\ r.existing.assigneeId = Null
       /\ ~tasks[r.taskId].exists

\* the request carries no bearer credential, a malformed one, or one that
\* names no existing user
Unauthentic(header) ==
    \/ header.scheme # "Bearer"
    \/ Len(header.parts) < 3
    \/ header.parts[1] # "temp" \/ header.parts[2] # "token"
    \/ header.parts[3] \notin DOMAIN UserTable

\* C20: the first step of a POST, PUT, PATCH or DELETE request whose
\* credential is absent, malformed or names no existing user answers 401
\* and leaves the store unchanged, whether or not its task exists and before
\* any lookup or permission check; no other request is answered 401; and
\* GET /tasks without a credential is answered 200.
C20_Unauthenticated ==
    [][\A r \in Stepping : \A q \in After(r) :
          /\ (r.method \in Methods /\ r.pc = "sent" /\ Unauthentic(r.header))
                => /\ q.pc = "done" /\ q.code = 401
                   /\ q.existing = NoExisting
                   /\ UNCHANGED <<tasks, tagTable>>
          /\ (r.method \in Methods /\ q.pc = "done" /\ q.code = 401)
                => (r.pc = "sent" /\ Unauthentic(r.header))
          /\ (r.method = "GET" /\ r.header = NoHeader /\ r.pc = "sent")
                => (q.pc = "done" /\ q.code = 200)]_vars

\* a PUT on a task that does not exist, with the token of a user that does
\* not exist, was answered 401
C20_Witness ==
    \E r \in reqs :
       /\ r.method = "PUT" /\ r.taskId = "t9"
       /\ r.header = Bearer(TokenOf("uX"))
       /\ r.pc = "done" /\ r.code = 401

\* C21: a Create by an authorized actor whose title is empty or missing is
\* answered 400 and creates no task and no tag.
C21_EmptyTitleRejected ==
    [][\A r \in Stepping : \A q \in After(r) :
          (/\ r.method = "POST" /\ r.pc = "allowed" /\ r.body.json
           /\ r.body.title \in {"", Undefined}) =>
             /\ q.pc = "done" /\ q.code = 400
             /\ UNCHANGED <<tasks, tagTable>>]_vars

\* the reference a name stands for: the first profile with exactly that
\* name, and none when there is no such profile or no name
ProfileOf(name) ==
    IF \E k \in DOMAIN AssigneeRows : AssigneeRows[k].name = name
    THEN AssigneeRows[CHOOSE k \in DOMAIN AssigneeRows :
                         /\ AssigneeRows[k].name = name
                         /\ \A j \in 1..(k - 1) : AssigneeRows[j].name # name].id
    ELSE Null

C22_WitnessUpdate ==
    \E r \in reqs :
       /\ r.method = "PUT" /\ r.pc = "done" /\ r.code = 200
       /\ r.body.assignee = "bob"
       /\ r.existing.assigneeId = "a1"
       /\ tasks["t1"].assigneeId = Null

\* a Create input the specification calls valid, with a name that exists
\* when it names an assignee
ValidCreate(b) ==
    /\ b.json
    /\ b.title \notin {"", Undefined}
    /\ b.description # ""
    /\ b.priority \in {"low", "medium", "high"}
    /\ b.status \in columns
    /\ b.dueDate \in {Undefined, "2025-01-02"}
    /\ b.assignee \in {Undefined} \cup {AssigneeRows[k].name : k \in DOMAIN AssigneeRows}

\* the task has the fields of the input
SameAsInput(task, b) ==
    /\ task.title = b.title
    /\ task.description = b.description
    /\ task.priority = b.priority
    /\ task.status = b.status
    /\ task.dueDate = b.dueDate
    /\ task.assignee = b.assignee
    /\ task.tags = NamesOf(b.tags.list)

LoggedIn == localStorage["auth_token"] # Null
C25_RequestsCarryToken ==
    [][\A q \in reqs' \ reqs :
          (LoggedIn /\ q.pc = "sent" /\ q.method \in Methods) =>
              q.header = Bearer(localStorage["auth_token"])]_vars

\* C26: the server resolves the actor from the credential on every call
\* against the user table as it is then: a role change or a deletion the
\* administrator's request has completed (answered 200) is in the table; a
\* request that is authenticated afterwards gets the row the table holds for
\* the user its token names, or 401 when the table holds none, whenever the
\* token was issued; and the permission check that follows decides on the
\* role of that row.
TokenUser(header) == header.parts[3]
C26_ActorResolvedPerCall ==
    [][/\ \A r \in Stepping : \A q \in After(r) :
             /\ (r.pc = "sent" /\ r.method \in Methods \cup UserMethods) =>
                   IF TokenUser(r.header) \in DOMAIN users
                   THEN q.pc = "authed" /\ q.user = users[TokenUser(r.header)]
                   ELSE q.pc = "done" /\ q.code = 401
             /\ (r.pc = "authed" /\ r.method = "PATCH" /\ FindExisting(r.taskId).found) =>
                   (q.code = 403 <=>
                       ~canMoveTask(ContextOf(r.user, FindExisting(r.taskId))))
             /\ (r.pc = "authed" /\ r.method = "DELETE" /\ FindExisting(r.taskId).found) =>
                   (q.code = 403 <=>
                       ~canDeleteTask(ContextOf(r.user, FindExisting(r.taskId))))
             /\ (r.pc = "authed" /\ r.method \in UserMethods) =>
                   (q.code = 403 <=> r.user.role # "ADMIN")
             /\ (r.method = "PUT users" /\ q.code = 200) =>
                   users'[r.taskId].role = r.body.role
             /\ (r.method = "DELETE users" /\ q.code = 200) =>
                   r.taskId \notin DOMAIN users'
       /\ users' # users =>
             \E r \in Stepping : \E q \in After(r) :
                 r.method \in UserMethods /\ q.code = 200]_vars

\* the employee uE, holder of the profile t1 is assigned to, has been made
\* a VIEWER and the Move sent with the token of uE is refused
C26_Witness ==
    \E r \in reqs :
        /\ r.header = Bearer(TokenOf("uE")) /\ r.method = "PATCH"
        /\ r.pc = "done" /\ r.code = 403
        /\ r.user.role = "VIEWER"
        /\ tasks["t1"].assigneeId = "a1"

\* uF has been deleted and a request with the token of uF is answered 401
C26_WitnessDeleted ==
    \E r \in reqs :
        /\ r.header = Bearer(TokenOf("uF")) /\ r.method \in Methods
        /\ r.pc = "done" /\ r.code = 401
        /\ "uF" \notin DOMAIN users

\* C27: a well-formed authenticated PUT, PATCH or DELETE on /tasks/{id} is
\* answered only 200, 403 or 404 under every interleaving with other
\* requests, and no step brings back a task that was deleted.
C27_NoInternalErrorUnderRace ==
    [][/\ \A r \in Stepping : \A q \in After(r) :
             (r.method \in {"PUT", "PATCH", "DELETE"} /\ q.pc = "done") =>
                 q.code \in {200, 403, 404}
       /\ \A t \in TaskIds : tasks'[t].exists => tasks[t].exists]_vars

\* C28: a step of an EMPLOYEE's PATCH or PUT changes the status of a task
\* only if the task's persisted assignee is, at that step, the employee's
\* own profile.
C28_StatusWriteOnOwnTask ==
    [][\A r \in Stepping :
          (/\ r.method \in {"PUT", "PATCH"}
           /\ r.user.role = "EMPLOYEE"
           /\ r.taskId \in TaskIds
           /\ tasks'[r.taskId].status # tasks[r.taskId].status) =>
              /\ r.user.assigneeId # Null
              /\ tasks[r.taskId].assigneeId = r.user.assigneeId]_vars

\* C29: whenever no request of the board is in flight and no drag is in
\* progress, every task of the local board has the status the store holds
\* for it.
BoardQuiet ==
    /\ \A r \in reqs : r.src \notin Slots
    /\ drag.active = Null
C29_QuiescentConsistency ==
    BoardQuiet =>
        \A e \in boardTasks :
            /\ RowExists(e.id)
            /\ e.task.status = statusFromEnum(tasks[e.id].status)

====
